---- MODULE Spec2Model ----
(***************************************************************************)
(* Model of es_mcp_server.py: the Elasticsearch lifespan manager, the five *)
(* tools and the three resources of the MCP server.                        *)
(*                                                                         *)
(* Strings the server returns are modelled as records                      *)
(*   [outcome, kind, head, body]                                           *)
(* where outcome is "return" or "raise", kind is "text" or "json", head is *)
(* the sequence of leading words of a text result and body is the          *)
(* structured content (for a JSON result: the JSON object itself).         *)
(* Python's None and dynamically typed values are tagged records           *)
(* [t |-> "none"], [t |-> "int", v |-> 3], [t |-> "str", s |-> <<...>>].   *)
(* An exception is named by its class; str(e) is modelled by that name.    *)
(* Python dicts are functions with a finite domain of string keys.         *)
(***************************************************************************)
EXTENDS Integers, Sequences, FiniteSets, TLC

\* Bounds of the explored inputs.
MaxIndices == 11
MaxPage == 3
MaxSize == 3
MaxHits == 2
MaxFieldsLen == 3
SmallCatalog == 2

VARIABLES
    env,        \* process environment: ES_CLOUD_ID and ES_API_KEY
    pc,         \* position of elasticsearch_lifespan
    client,     \* the cluster handle: "none", "open", "closed"
    closeCalls, \* number of es_client.close() calls made so far
    yielded,    \* whether the lifespan context was yielded to the server
    pinged,     \* outcome of es_client.ping(): "unknown", "true", "false", "raises"
    raised,     \* exception that left elasticsearch_lifespan, and the one it replaced
    cluster,    \* contents of the search cluster
    last        \* the last tool or resource invocation and its result

vars == <<env, pc, client, closeCalls, yielded, pinged, raised, cluster, last>>

----------------------------------------------------------------------------
\* Python values and helpers

NoneVal == [t |-> "none"]
IntVal(i) == [t |-> "int", v |-> i]
StrVal(s) == [t |-> "str", s |-> s]
ListVal == [t |-> "list"]

Min(a, b) == IF a < b THEN a ELSE b
Max(a, b) == IF a > b THEN a ELSE b

\* Floor division in place of the ceiling.
FloorDiv(a, b) == a \div b

\* math.ceil(a / b) for a >= 0, b > 0
Ceil(a, b) == (a + b - 1) \div b

\* seq[start:end] for 0 <= start
Slice(seq, start, end) ==
    IF start >= Len(seq) \/ end <= start THEN <<>>
    ELSE SubSeq(seq, start + 1, Min(end, Len(seq)))

\* dict.get(key, default)
Get(d, key, default) == IF key \in DOMAIN d THEN d[key] ELSE default

\* {**a, **b}: the keys of b override those of a
Merge(a, b) ==
    [k \in DOMAIN a \cup DOMAIN b |-> IF k \in DOMAIN b THEN b[k] ELSE a[k]]

----------------------------------------------------------------------------
\* The cluster (external): a catalog of indices 1..n and one mapping

EmptyDict == <<>>

\* Field mappings an index may have: index_mappings as get_mapping returns it
\* under [index]["mappings"].
Mappings ==
    { EmptyDict,
      [properties |-> EmptyDict],
      [properties |->
          [price |-> [type |-> "long"],
           vec |-> [type |-> "dense_vector"],
           meta |-> [properties |-> EmptyDict]]],
      [properties |->
          [title |-> [type |-> "text"],
           body |-> [type |-> "text"],
           price |-> [type |-> "long"]]],
      [properties |->
          [embedding |-> [type |-> "object", dense_vector |-> [dims |-> 3]],
           price |-> [type |-> "long"]]] }

\* The clusters explored: every mapping for a catalog of up to SmallCatalog
\* indices, and every catalog size for an index without field mappings.
Clusters ==
    {c \in [n : 0..MaxIndices, mapping : Mappings] :
        c.n <= SmallCatalog \/ c.mapping = EmptyDict}

\* The index names a caller asks for; index i exists iff i <= cluster.n.
IndexArgs == {1, 2}
Exists(c, index) == index \in 1..c.n

\* One row of cat.indices(h="index,health,status,docs.count,store.size")
CatRow(i) ==
    [index |-> i,
     health |-> IF i % 2 = 0 THEN "green" ELSE "yellow",
     status |-> "open",
     docs_count |-> i * 5,
     store_size |-> i]

\* es.cat.indices(format="json", h=..., s="index:asc"): rows sorted by name
CatIndices(c) == [i \in 1..c.n |-> CatRow(i)]

\* es.indices.get_mapping(index=index): raises NotFoundError for a missing
\* index, else the mappings keyed by the index name.
GetMapping(c, index) ==
    IF Exists(c, index)
    THEN [ok |-> TRUE, response |-> (index :> [mappings |-> c.mapping])]
    ELSE [ok |-> FALSE, exc |-> "NotFoundError"]

\* es.indices.stats(index=index)
IndexStats(c, index) ==
    IF Exists(c, index)
    THEN [ok |-> TRUE,
          response |->
            [_all |-> [primaries |->
                [docs |-> [count |-> index * 5],
                 store |-> [size_in_bytes |-> index * 2097152],
                 indexing |-> [index_total |-> index * 7],
                 search |-> [query_total |-> index * 3]]]]]
    ELSE [ok |-> FALSE, exc |-> "NotFoundError"]

\* es.indices.get(index=index)
GetIndex(c, index) ==
    IF Exists(c, index)
    THEN [ok |-> TRUE,
          response |-> (index :> [settings |-> [number_of_shards |-> index],
                                  mappings |-> c.mapping])]
    ELSE [ok |-> FALSE, exc |-> "NotFoundError"]

\* Hits a search may return. _source and highlight are dicts in the order
\* of their keys: sequences of <<key, value>> pairs. A hit may lack either.
Pair(k, v) == [k |-> k, v |-> v]
Hits ==
    << [_id |-> "a", _score |-> 1,
        _source |-> <<Pair("title", "t1"), Pair("price", 3)>>],
       [_id |-> "b", _score |-> 2,
        _source |-> <<Pair("title", "t2"), Pair("price", 4)>>,
        highlight |-> <<Pair("title", <<"f1">>)>>],
       [_id |-> "c", _score |-> 3,
        _source |-> <<Pair("price", 5), Pair("title", "t3")>>,
        highlight |-> <<Pair("body", <<"g1">>), Pair("title", <<"f1", "f2">>)>>],
       [_id |-> "d", _score |-> 4,
        _source |-> <<Pair("title", "t4"), Pair("price", 6)>>,
        highlight |-> <<Pair("title", <<>>)>>],
       [_id |-> "e", _score |-> 5,
        highlight |-> <<Pair("title", <<"f3">>)>>] >>

\* The hits of a response: at most MaxHits consecutive ones of Hits.
HitWindows ==
    {SubSeq(Hits, i, Min(Len(Hits), i + k - 1)) :
        i \in 1..Len(Hits), k \in 0..MaxHits}

\* hits.total comes as a number or as an object with the number.
Responses ==
    {[total |-> t, hits |-> w] :
        t \in {IntVal(Len(Hits)), [t |-> "object", value |-> Len(Hits)]},
        w \in HitWindows}
NoResponse == [total |-> [t |-> "object", value |-> 0], hits |-> <<>>]

\* es.search on one index: NotFoundError for a missing index. A hit comes
\* back with the highlight entries of the fields the request asked
\* highlights for, and without a highlight key when there is none.
Unhighlighted(hit) == [k \in DOMAIN hit \ {"highlight"} |-> hit[k]]
Highlighted(hit, fields) ==
    IF "highlight" \notin DOMAIN hit THEN hit
    ELSE LET kept == SelectSeq(hit.highlight, LAMBDA p : p.k \in fields) IN
         IF kept = <<>> THEN Unhighlighted(hit)
         ELSE [k \in DOMAIN hit |-> IF k = "highlight" THEN kept ELSE hit[k]]
SearchCluster(c, index, fields, resp) ==
    IF ~Exists(c, index) THEN [ok |-> FALSE, exc |-> "NotFoundError"]
    ELSE [ok |-> TRUE,
          response |->
            [hits |->
              [total |-> resp.total,
               hits |-> [h \in 1..Len(resp.hits) |->
                            Highlighted(resp.hits[h], fields)]]]]

----------------------------------------------------------------------------
\* Results handed back across the dispatch boundary

TextResult(head, body) ==
    [outcome |-> "return", kind |-> "text", head |-> head, body |-> body]
JsonResult(obj) ==
    [outcome |-> "return", kind |-> "json", head |-> <<>>, body |-> obj]
Raised(exc) ==
    [outcome |-> "raise", kind |-> "none", head |-> <<>>, body |-> [exc |-> exc]]
NoResult ==
    [outcome |-> "none", kind |-> "none", head |-> <<>>, body |-> [exc |-> "none"]]

\* The resources' answer when the context lacks an attribute they look for
ContextNotInitialized ==
    JsonResult([error |-> <<"Internal", "server", "error">>])

\* What one invocation did: the cluster calls it issued, in order, the search
\* request it sent (if any), the exception raised in it (if any) and its
\* result.
NoRequest == [sent |-> FALSE]
Done(calls, request, result) ==
    [calls |-> calls, request |-> request, exc |-> "none", result |-> result]

\* An invocation in which exception e was raised inside the try block: its
\* result is what the except clause returns.
Caught(calls, request, e, handled) ==
    [calls |-> calls, request |-> request, exc |-> e, result |-> handled]

\* An invocation in which exception e was raised outside any try block.
Uncaught(calls, request, e) ==
    [calls |-> calls, request |-> request, exc |-> e, result |-> Raised(e)]

----------------------------------------------------------------------------
\* list_indices (tool)

ListIndicesError(e) ==
    TextResult(<<"Error", "listing", "indices", ":">>, [message |-> e])

IndicesInfo(rows) ==
    [k \in 1..Len(rows) |->
        [index |-> rows[k].index, health |-> rows[k].health,
         status |-> rows[k].status, docs_count |-> rows[k].docs_count,
         size |-> rows[k].store_size]]

\* The body of list_indices; page and page_size are None or an int, fault
\* names the step of the call at which an exception is raised ("none": no
\* exception).
ListIndices(page, page_size, fault, c) ==
    LET current_page_size ==
            IF page_size # NoneVal /\ page_size.v > 0 THEN page_size.v
            ELSE 10
        requested_page ==
            IF page # NoneVal /\ page.v > 0 THEN page.v ELSE 1
    IN
    IF fault = "ctx"
    THEN Caught(<<>>, NoRequest, "AttributeError",
              ListIndicesError("AttributeError"))
    ELSE IF fault = "cat.indices"
    THEN Caught(<<"cat.indices">>, NoRequest, "ConnectionError",
              ListIndicesError("ConnectionError"))
    ELSE
    LET all_indices == CatIndices(c) IN
    IF all_indices = <<>>
    THEN Done(<<"cat.indices">>, NoRequest,
              TextResult(<<"No", "indices", "found.">>, [message |-> "none"]))
    ELSE IF fault = "malformed"
    THEN Caught(<<"cat.indices">>, NoRequest, "AttributeError",
              ListIndicesError("AttributeError"))
    ELSE
    LET total_indices == Len(all_indices)
        total_pages == Ceil(total_indices, current_page_size)
        current_page ==
            Max(1, Min(requested_page, IF total_pages > 0 THEN total_pages ELSE 1))
        start_index == (current_page - 1) * current_page_size
        end_index == start_index + current_page_size
        paginated_indices == Slice(all_indices, start_index, end_index)
        indices_info == IndicesInfo(paginated_indices)
        response_data ==
            [total_indices |-> total_indices,
             current_page |-> current_page,
             page_size |-> current_page_size,
             total_pages |-> total_pages,
             indices_on_page |-> Len(indices_info),
             indices |-> indices_info]
    IN Done(<<"cat.indices">>, NoRequest,
            TextResult(<<"Showing", "page">>, response_data))

----------------------------------------------------------------------------
\* get_mappings (tool)

ToolError(e) == TextResult(<<"Error", ":">>, [message |-> e])

GetMappings(index, fault, c) ==
    IF fault = "ctx" THEN Caught(<<>>, NoRequest, "AttributeError",
              ToolError("AttributeError"))
    ELSE IF fault = "get_mapping"
    THEN Caught(<<"get_mapping">>, NoRequest, "ConnectionError",
              ToolError("ConnectionError"))
    ELSE
    LET got == GetMapping(c, index) IN
    IF ~got.ok THEN Caught(<<"get_mapping">>, NoRequest, got.exc,
              ToolError(got.exc))
    ELSE IF fault = "malformed"
    THEN Caught(<<"get_mapping">>, NoRequest, "AttributeError",
              ToolError("AttributeError"))
    ELSE
    LET mapping_response == got.response
        mappings == Get(Get(mapping_response, index, EmptyDict),
                        "mappings", EmptyDict)
    IN Done(<<"get_mapping">>, NoRequest,
            TextResult(<<"Mappings", "for", "index", ":">>,
                       [index |-> index, mappings |-> mappings]))

----------------------------------------------------------------------------
\* search (tool)

Keys(pairs) == {pairs[i].k : i \in 1..Len(pairs)}

\* Only fields of type text are taken.
TextFieldsByTypeOnly(index_mappings) ==
    LET properties == index_mappings["properties"] IN
    [field_name \in
        {f \in DOMAIN properties : Get(properties[f], "type", "None") = "text"}
     |-> EmptyDict]

\* The fields search asks highlights for: type text, or a dense_vector key.
TextFields(index_mappings) ==
    LET properties == index_mappings["properties"] IN
    [field_name \in
        {f \in DOMAIN properties :
            \/ Get(properties[f], "type", "None") = "text"
            \/ "dense_vector" \in DOMAIN properties[f]}
     |-> EmptyDict]

\* The keyword arguments of es.search(**search_request)
SearchRequest(index, query_body, index_mappings) ==
    LET search_request == Merge([index |-> index], query_body) IN
    IF "properties" \in DOMAIN index_mappings
          /\ TextFields(index_mappings) # EmptyDict
    THEN Merge(search_request,
               [highlight |->
                   [fields |-> TextFields(index_mappings),
                    pre_tags |-> <<"<em>">>,
                    post_tags |-> <<"</em>">>]])
    ELSE search_request

\* The lines of one hit: a line per highlighted field with fragments, then a
\* line per source field that has no highlight entry.
HitText(hit) ==
    LET highlighted_fields == Get(hit, "highlight", <<>>)
        source_data == Get(hit, "_source", <<>>)
        shown == SelectSeq(highlighted_fields, LAMBDA p : Len(p.v) > 0)
        rest == SelectSeq(source_data,
                          LAMBDA p : p.k \notin Keys(highlighted_fields))
    IN [i \in 1..Len(shown) |->
            [field |-> shown[i].k, highlighted |-> TRUE,
             value |-> [joined |-> shown[i].v]]]
       \o
       [i \in 1..Len(rest) |->
            [field |-> rest[i].k, highlighted |-> FALSE,
             value |-> [json |-> rest[i].v]]]

Search(index, query_body, fault, resp, c) ==
    IF fault = "ctx" THEN Caught(<<>>, NoRequest, "AttributeError",
              ToolError("AttributeError"))
    ELSE IF fault = "get_mapping"
    THEN Caught(<<"get_mapping">>, NoRequest, "ConnectionError",
              ToolError("ConnectionError"))
    ELSE
    LET got == GetMapping(c, index) IN
    IF ~got.ok THEN Caught(<<"get_mapping">>, NoRequest, got.exc,
              ToolError(got.exc))
    ELSE
    LET mapping_response == got.response
        index_mappings == Get(Get(mapping_response, index, EmptyDict),
                              "mappings", EmptyDict)
        search_request == SearchRequest(index, query_body, index_mappings)
        request == [sent |-> TRUE, kwargs |-> search_request]
        calls == <<"get_mapping", "search">>
    IN
    IF fault = "search" THEN Caught(calls, request, "ConnectionError",
              ToolError("ConnectionError"))
    ELSE
    LET found == SearchCluster(c, search_request.index,
                               IF "highlight" \in DOMAIN search_request
                               THEN DOMAIN search_request.highlight.fields
                               ELSE {},
                               resp)
    IN
    IF ~found.ok THEN Caught(calls, request, found.exc,
              ToolError(found.exc))
    ELSE IF fault = "malformed" THEN Caught(calls, request, "KeyError",
              ToolError("KeyError"))
    ELSE
    LET result == found.response
        from_value == Get(query_body, "from", 0)
        total_hits == IF result.hits.total.t = "object"
                      THEN result.hits.total.value ELSE result.hits.total.v
        hits == result.hits.hits
    IN Done(calls, request,
            TextResult(<<"Total", "results", ":">>,
                       [total |-> total_hits, showing |-> Len(hits),
                        from |-> from_value,
                        hits |-> [h \in 1..Len(hits) |-> HitText(hits[h])]]))

----------------------------------------------------------------------------
\* search_with_query_string (tool)

SearchIndexError(index_name, e) ==
    TextResult(<<"Error", "searching", "index">>,
               [index |-> index_name, message |-> e])

\* str.split(","): a string is a sequence of characters
RECURSIVE Split(_)
Split(s) ==
    IF \A i \in 1..Len(s) : s[i] # "," THEN <<s>>
    ELSE LET i == CHOOSE j \in 1..Len(s) :
                    s[j] = "," /\ \A k \in 1..(j - 1) : s[k] # ","
         IN <<SubSeq(s, 1, i - 1)>> \o Split(SubSeq(s, i + 1, Len(s)))

\* The projection is set for an empty fields argument too.
QueryStringBodyUnlessSentinel(query_text, fields, size, from_) ==
    LET query == [query |-> [query_string |-> [query |-> query_text]],
                  size |-> size, from |-> from_]
    IN IF fields # <<"_source">>
       THEN Merge(query, [_source |-> Split(fields)])
       ELSE query

\* The query body the tool builds
QueryStringBody(query_text, fields, size, from_) ==
    LET query == [query |-> [query_string |-> [query |-> query_text]],
                  size |-> size, from |-> from_]
    IN IF fields # <<>> /\ fields # <<"_source">>
       THEN Merge(query, [_source |-> Split(fields)])
       ELSE query

SearchWithQueryString(index_name, query_text, fields, size, from_, fault, resp, c) ==
    IF fault = "ctx"
    THEN Caught(<<>>, NoRequest, "AttributeError",
              SearchIndexError(index_name, "AttributeError"))
    ELSE
    LET query == QueryStringBody(query_text, fields, size, from_)
        request == [sent |-> TRUE, index |-> index_name, body |-> query]
    IN
    IF fault = "search"
    THEN Caught(<<"search">>, request, "ConnectionError",
              SearchIndexError(index_name, "ConnectionError"))
    ELSE
    LET found == SearchCluster(c, index_name, {}, resp) IN
    IF ~found.ok
    THEN Caught(<<"search">>, request, found.exc,
              SearchIndexError(index_name, found.exc))
    ELSE IF fault = "malformed"
    THEN Caught(<<"search">>, request, "KeyError",
              SearchIndexError(index_name, "KeyError"))
    ELSE
    LET results == found.response
        hits == results.hits.hits
    IN
    IF results.hits.total.t # "object"
    THEN Caught(<<"search">>, request, "TypeError",
              SearchIndexError(index_name, "TypeError"))
    ELSE IF \E i \in 1..Len(hits) : "_source" \notin DOMAIN hits[i]
    THEN Caught(<<"search">>, request, "KeyError",
              SearchIndexError(index_name, "KeyError"))
    ELSE
    LET total == results.hits.total.value IN
    Done(<<"search">>, request,
         TextResult(<<"Found">>,
                    [total |-> total, first |-> from_ + 1,
                     last |-> Min(from_ + size, total),
                     results |->
                        [i \in 1..Len(hits) |->
                            [number |-> from_ + i, score |-> hits[i]._score,
                             id |-> hits[i]._id,
                             content |-> hits[i]._source]]]))

----------------------------------------------------------------------------
\* get_index_stats (tool)

\* The except clause lets the exception through.
IndexStatsReraise(index_name, e) == Raised(e)

IndexStatsError(index_name, e) ==
    TextResult(<<"Error", "getting", "stats", "for", "index">>,
               [index |-> index_name, message |-> e])

\* size_in_bytes / 1024 / 1024 to two decimals, in hundredths of a MB
HundredthsMB(bytes) == (bytes * 100 + 524288) \div 1048576

GetIndexStats(index_name, fault, c) ==
    IF fault = "ctx"
    THEN Caught(<<>>, NoRequest, "AttributeError",
              IndexStatsError(index_name, "AttributeError"))
    ELSE IF fault = "stats"
    THEN Caught(<<"stats">>, NoRequest, "ConnectionError",
              IndexStatsError(index_name, "ConnectionError"))
    ELSE
    LET got == IndexStats(c, index_name) IN
    IF ~got.ok
    THEN Caught(<<"stats">>, NoRequest, got.exc,
              IndexStatsError(index_name, got.exc))
    ELSE IF fault = "malformed"
    THEN Caught(<<"stats">>, NoRequest, "KeyError",
              IndexStatsError(index_name, "KeyError"))
    ELSE
    LET primaries == got.response._all.primaries IN
    Done(<<"stats">>, NoRequest,
         TextResult(<<"Statistics", "for", "index", ":">>,
                    [index |-> index_name,
                     documents |-> primaries.docs.count,
                     size_mb |-> HundredthsMB(primaries.store.size_in_bytes),
                     indexing |-> primaries.indexing.index_total,
                     search |-> primaries.search.query_total]))

----------------------------------------------------------------------------
\* int(raw) as used on the resource's raw parameters

Digits == <<"0", "1", "2", "3", "4", "5", "6", "7", "8", "9">>
IsDigit(ch) == \E d \in 1..10 : Digits[d] = ch
DigitVal(ch) == (CHOOSE d \in 1..10 : Digits[d] = ch) - 1
AllDigits(s) == Len(s) > 0 /\ \A k \in 1..Len(s) : IsDigit(s[k])

RECURSIVE DigitsVal(_)
DigitsVal(s) ==
    IF s = <<>> THEN 0
    ELSE 10 * DigitsVal(SubSeq(s, 1, Len(s) - 1)) + DigitVal(s[Len(s)])

\* int(raw): the converted value, or the exception int() raises.
PyInt(raw) ==
    IF raw.t = "int" THEN [ok |-> TRUE, v |-> raw.v]
    ELSE IF raw.t = "str"
    THEN IF AllDigits(raw.s) THEN [ok |-> TRUE, v |-> DigitsVal(raw.s)]
         ELSE IF Len(raw.s) > 1 /\ raw.s[1] = "-" /\ AllDigits(Tail(raw.s))
         THEN [ok |-> TRUE, v |-> 0 - DigitsVal(Tail(raw.s))]
         ELSE [ok |-> FALSE, exc |-> "ValueError"]
    ELSE [ok |-> FALSE, exc |-> "TypeError"]

----------------------------------------------------------------------------
\* list_indices_resource

ResourceListError(e) ==
    JsonResult([error |-> <<"Error", "listing", "indices", ":", e>>])

\* Another default page size than the tool's.
ResourceParamsOtherDefault(tool_input) ==
    LET params_source == IF tool_input.present THEN tool_input.d ELSE NoneVal
        raw_page == IF params_source # NoneVal THEN params_source.page ELSE NoneVal
        raw_page_size ==
            IF params_source # NoneVal THEN params_source.page_size ELSE NoneVal
        page0 == IF raw_page # NoneVal /\ PyInt(raw_page).ok
                 THEN PyInt(raw_page).v ELSE 1
        page_size0 == IF raw_page_size # NoneVal /\ PyInt(raw_page_size).ok
                      THEN PyInt(raw_page_size).v ELSE 20
    IN [page |-> IF page0 <= 0 THEN 1 ELSE page0,
        page_size |-> IF page_size0 <= 0 THEN 20 ELSE page_size0]

\* The page and page_size the resource works with after reading tool_input
\* (absent, or a dict of raw values) and resetting non-positive values.
ResourceParams(tool_input) ==
    LET params_source == IF tool_input.present THEN tool_input.d ELSE NoneVal
        raw_page == IF params_source # NoneVal THEN params_source.page ELSE NoneVal
        raw_page_size ==
            IF params_source # NoneVal THEN params_source.page_size ELSE NoneVal
        page0 == IF raw_page # NoneVal /\ PyInt(raw_page).ok
                 THEN PyInt(raw_page).v ELSE 1
        page_size0 == IF raw_page_size # NoneVal /\ PyInt(raw_page_size).ok
                      THEN PyInt(raw_page_size).v ELSE 10
    IN [page |-> IF page0 <= 0 THEN 1 ELSE page0,
        page_size |-> IF page_size0 <= 0 THEN 10 ELSE page_size0]

\* The body of list_indices_resource. fault names the step at which an
\* exception is raised: "get_context" (mcp.get_context() itself, before the
\* try block), "ctx" (reading an attribute of the context raises an exception
\* other than AttributeError), a cluster call, or "malformed" (a row of the
\* catalog is no dict); "uninitialized": an attribute hasattr looks for is
\* missing; "none": no exception.
ListIndicesResource(tool_input, fault, c) ==
    IF fault = "get_context" THEN Uncaught(<<>>, NoRequest, "RuntimeError")
    ELSE IF fault = "ctx"
    THEN Caught(<<>>, NoRequest, "ValueError",
              ResourceListError("ValueError"))
    ELSE IF fault = "uninitialized"
    THEN Done(<<>>, NoRequest, ContextNotInitialized)
    ELSE
    LET page == ResourceParams(tool_input).page
        page_size == ResourceParams(tool_input).page_size
    IN
    IF fault = "cat.indices"
    THEN Caught(<<"cat.indices">>, NoRequest, "ConnectionError",
              ResourceListError("ConnectionError"))
    ELSE
    LET all_indices == CatIndices(c) IN
    IF all_indices = <<>>
    THEN Done(<<"cat.indices">>, NoRequest,
              JsonResult([total_indices |-> 0, current_page |-> page,
                          page_size |-> page_size, total_pages |-> 0,
                          indices_on_page |-> 0, indices |-> <<>>]))
    ELSE IF fault = "malformed"
    THEN Caught(<<"cat.indices">>, NoRequest, "AttributeError",
              ResourceListError("AttributeError"))
    ELSE
    LET total_indices == Len(all_indices)
        total_pages == Ceil(total_indices, page_size)
        current_page ==
            Max(1, Min(page, IF total_pages > 0 THEN total_pages ELSE 1))
        start_index == (current_page - 1) * page_size
        end_index == start_index + page_size
        paginated_indices == Slice(all_indices, start_index, end_index)
        indices_info == IndicesInfo(paginated_indices)
        response_data ==
            [total_indices |-> total_indices, current_page |-> current_page,
             page_size |-> page_size, total_pages |-> total_pages,
             indices_on_page |-> Len(indices_info), indices |-> indices_info]
    IN Done(<<"cat.indices">>, NoRequest, JsonResult(response_data))

----------------------------------------------------------------------------
\* get_index_resource

NotFound(index_name) ==
    TextResult(<<"Index", "does", "not", "exist">>, [index |-> index_name])

IndexResourceError(e) ==
    JsonResult([error |-> <<"Error", "retrieving", "index", "information", ":", e>>])

\* get_index_resource without the existence check: get is the first call.
GetIndexResourceUnchecked(index_name, fault, c) ==
    LET got == GetIndex(c, index_name) IN
    IF ~got.ok
    THEN Caught(<<"get">>, NoRequest, got.exc, IndexResourceError(got.exc))
    ELSE
    LET primaries == IndexStats(c, index_name).response._all.primaries
        result ==
            [name |-> index_name,
             settings |-> Get(Get(got.response, index_name, EmptyDict),
                              "settings", EmptyDict),
             stats |->
                [docs_count |-> primaries.docs.count,
                 size_bytes |-> primaries.store.size_in_bytes,
                 size_mb |-> HundredthsMB(primaries.store.size_in_bytes)]]
    IN Done(<<"get", "stats">>, NoRequest, JsonResult(result))

\* size_in_bytes / 1024 / 1024 rounded to two decimals, in hundredths
GetIndexResource(index_name, fault, c) ==
    IF fault = "get_context" THEN Uncaught(<<>>, NoRequest, "RuntimeError")
    ELSE IF fault = "ctx"
    THEN Caught(<<>>, NoRequest, "ValueError",
              IndexResourceError("ValueError"))
    ELSE IF fault = "uninitialized"
    THEN Done(<<>>, NoRequest, ContextNotInitialized)
    ELSE IF fault = "exists"
    THEN Caught(<<"exists">>, NoRequest, "ConnectionError",
              IndexResourceError("ConnectionError"))
    ELSE IF ~Exists(c, index_name)
    THEN Done(<<"exists">>, NoRequest, NotFound(index_name))
    ELSE IF fault = "get"
    THEN Caught(<<"exists", "get">>, NoRequest, "ConnectionError",
              IndexResourceError("ConnectionError"))
    ELSE IF fault = "stats"
    THEN Caught(<<"exists", "get", "stats">>, NoRequest, "ConnectionError",
              IndexResourceError("ConnectionError"))
    ELSE IF fault = "malformed"
    THEN Caught(<<"exists", "get", "stats">>, NoRequest, "KeyError",
              IndexResourceError("KeyError"))
    ELSE
    LET index_info == GetIndex(c, index_name).response
        stats == IndexStats(c, index_name).response
        primaries == stats._all.primaries
        result ==
            [name |-> index_name,
             settings |-> Get(Get(index_info, index_name, EmptyDict),
                              "settings", EmptyDict),
             stats |->
                [docs_count |-> primaries.docs.count,
                 size_bytes |-> primaries.store.size_in_bytes,
                 size_mb |-> HundredthsMB(primaries.store.size_in_bytes)]]
    IN Done(<<"exists", "get", "stats">>, NoRequest, JsonResult(result))

----------------------------------------------------------------------------
\* get_mapping_resource

MappingResourceError(e) ==
    JsonResult([error |-> <<"Error", "retrieving", "mapping", "information", ":", e>>])

\* field_types: how many top-level fields have each type ("unknown": none)
FieldTypes(mappings) ==
    IF "properties" \notin DOMAIN mappings THEN EmptyDict
    ELSE LET properties == mappings["properties"]
             TypeOf(f) == Get(properties[f], "type", "unknown")
         IN [field_type \in {TypeOf(f) : f \in DOMAIN properties} |->
                Cardinality({f \in DOMAIN properties : TypeOf(f) = field_type})]

GetMappingResource(index_name, fault, c) ==
    IF fault = "get_context" THEN Uncaught(<<>>, NoRequest, "RuntimeError")
    ELSE IF fault = "ctx"
    THEN Caught(<<>>, NoRequest, "ValueError",
              MappingResourceError("ValueError"))
    ELSE IF fault = "uninitialized"
    THEN Done(<<>>, NoRequest, ContextNotInitialized)
    ELSE IF fault = "exists"
    THEN Caught(<<"exists">>, NoRequest, "ConnectionError",
              MappingResourceError("ConnectionError"))
    ELSE IF ~Exists(c, index_name)
    THEN Done(<<"exists">>, NoRequest, NotFound(index_name))
    ELSE IF fault = "get_mapping"
    THEN Caught(<<"exists", "get_mapping">>, NoRequest, "ConnectionError",
              MappingResourceError("ConnectionError"))
    ELSE IF fault = "malformed"
    THEN Caught(<<"exists", "get_mapping">>, NoRequest, "AttributeError",
              MappingResourceError("AttributeError"))
    ELSE
    LET mapping_response == GetMapping(c, index_name).response
        mappings == Get(Get(mapping_response, index_name, EmptyDict),
                        "mappings", EmptyDict)
        result ==
            [index |-> index_name,
             mappings |-> mappings,
             field_count |-> IF "properties" \in DOMAIN mappings
                             THEN Cardinality(DOMAIN mappings["properties"])
                             ELSE 0,
             field_types |-> FieldTypes(mappings)]
    IN Done(<<"exists", "get_mapping">>, NoRequest, JsonResult(result))

----------------------------------------------------------------------------
\* elasticsearch_lifespan

EnvValues == {"absent", "", "set"}

\* os.environ.get(name, "")
EnvGet(name) == IF env[name] = "absent" THEN "" ELSE env[name]

NoException == [type |-> "none", context |-> "none"]

\* Finally without the try/finally: the handle is closed on normal exit only.
FinallyOnNormalExitOnly(exc) ==
    /\ client' = IF exc = "none" THEN "closed" ELSE client
    /\ closeCalls' = IF exc = "none" THEN closeCalls + 1 ELSE closeCalls
    /\ raised' = [type |-> IF exc = "none" THEN "TypeError" ELSE exc,
                  context |-> exc]
    /\ pc' = "done"

\* The finally block, entered with exception exc in flight ("none": normal
\* exit). es_client.close() is called; Elasticsearch is the synchronous
\* client, whose close() returns None, and awaiting None raises TypeError,
\* which replaces the exception in flight.
Finally(exc) ==
    /\ client' = "closed"
    /\ closeCalls' = closeCalls + 1
    /\ raised' = [type |-> "TypeError", context |-> exc]
    /\ pc' = "done"

\* From the start to the construction of the client.
LifespanStart ==
    /\ pc = "start"
    /\ LET es_cloud_id == EnvGet("ES_CLOUD_ID")
           es_api_key == EnvGet("ES_API_KEY")
       IN IF es_cloud_id = "" \/ es_api_key = ""
          THEN /\ raised' = [type |-> "ValueError", context |-> "none"]
               /\ pc' = "done"
               /\ UNCHANGED client
          ELSE /\ client' = "open"
               /\ pc' = "ping"
               /\ UNCHANGED raised
    /\ UNCHANGED <<env, closeCalls, yielded, pinged, cluster, last>>

\* The liveness check inside the try block, up to the yield.
LifespanPing ==
    /\ pc = "ping"
    /\ \E r \in {"true", "false", "raises"} :
        /\ pinged' = r
        /\ IF r = "true"
           THEN /\ yielded' = TRUE
                /\ pc' = "serving"
                /\ UNCHANGED <<client, closeCalls, raised>>
           ELSE /\ Finally(IF r = "false" THEN "ConnectionError"
                           ELSE "TransportError")
                /\ UNCHANGED yielded
    /\ UNCHANGED <<env, cluster, last>>

\* The server stops: the generator is resumed at the yield, normally or with
\* the fault that ended the server.
LifespanExit ==
    /\ pc = "serving"
    /\ \E exc \in {"none", "ServerFault"} : Finally(exc)
    /\ UNCHANGED <<env, yielded, pinged, cluster, last>>

----------------------------------------------------------------------------
\* Invocations. FastMCP serves tools and resources while the lifespan
\* context is held, i.e. between the yield and the resumption.

PageArgs == {NoneVal} \cup {IntVal(i) : i \in -1..MaxPage}
SizeArgs == {NoneVal} \cup {IntVal(i) : i \in -1..MaxSize}

RawValues ==
    {NoneVal, ListVal}
    \cup {IntVal(i) : i \in -1..MaxPage}
    \cup {StrVal(s) : s \in {<<"2">>, <<"-", "1">>, <<"1", "2">>, <<"x">>}}

ToolInputs ==
    {[present |-> FALSE]}
    \cup {[present |-> TRUE, d |-> [page |-> p, page_size |-> z]] :
            p \in RawValues, z \in RawValues}

Idle ==
    [op |-> "none", args |-> EmptyDict, handle |-> "none",
     calls |-> <<>>, request |-> NoRequest, exc |-> "none",
     result |-> NoResult]

\* One invocation runs to completion; last holds it until its result has
\* been handed to the caller.
Ready == pc = "serving" /\ last = Idle

\* Serve with an invocation that closes the handle it was given.
ServeAndClose(op, args, done) ==
    /\ last' = [op |-> op, args |-> args, handle |-> client,
                calls |-> done.calls, request |-> done.request,
                exc |-> done.exc,
                result |-> done.result]
    /\ client' = "closed"
    /\ closeCalls' = closeCalls + 1
    /\ UNCHANGED <<env, pc, yielded, pinged, raised, cluster>>

Serve(op, args, done) ==
    /\ last' = [op |-> op, args |-> args, handle |-> client,
                calls |-> done.calls, request |-> done.request,
                exc |-> done.exc,
                result |-> done.result]
    /\ UNCHANGED <<env, pc, client, closeCalls, yielded, pinged, raised, cluster>>

CallListIndices ==
    /\ Ready
    /\ \E page \in PageArgs, page_size \in SizeArgs,
          fault \in {"none", "ctx", "cat.indices", "malformed"} :
           Serve("list_indices",
                 [page |-> page, page_size |-> page_size, fault |-> fault],
                 ListIndices(page, page_size, fault, cluster))

ReadIndicesResource ==
    /\ Ready
    /\ \E fault \in {"none", "get_context", "ctx", "uninitialized",
                     "cat.indices", "malformed"} :
       \E tool_input \in IF fault \in {"get_context", "ctx", "uninitialized"}
                          THEN {[present |-> FALSE]} ELSE ToolInputs :
           Serve("list_indices_resource",
                 [tool_input |-> tool_input, fault |-> fault],
                 ListIndicesResource(tool_input, fault, cluster))

CallGetMappings ==
    /\ Ready
    /\ \E index \in IndexArgs, fault \in {"none", "ctx", "get_mapping", "malformed"} :
           Serve("get_mappings", [index |-> index, fault |-> fault],
                 GetMappings(index, fault, cluster))

\* Query bodies a caller may pass to search
QueryBodies ==
    { EmptyDict,
      [query |-> "match_all"],
      [query |-> "match_all", from |-> 1, size |-> 1],
      [query |-> "match_all",
       highlight |-> [fields |-> [price |-> EmptyDict]]],
      [query |-> "match_all", index |-> 2] }

CallSearch ==
    /\ Ready
    /\ \E index \in IndexArgs, query_body \in QueryBodies,
          fault \in {"none", "ctx", "get_mapping", "search", "malformed"} :
       \E resp \in IF fault = "none" THEN Responses ELSE {NoResponse} :
           Serve("search",
                 [index |-> index, query_body |-> query_body, fault |-> fault,
                  resp |-> resp],
                 Search(index, query_body, fault, resp, cluster))

\* The fields arguments: strings of at most MaxFieldsLen characters over
\* t, p and the comma, and the sentinel.
RECURSIVE StringsUpTo(_)
StringsUpTo(k) ==
    IF k = 0 THEN {<<>>}
    ELSE StringsUpTo(k - 1)
         \cup {Append(s, ch) : s \in StringsUpTo(k - 1), ch \in {"t", "p", ","}}
FieldsArgs == StringsUpTo(MaxFieldsLen) \cup {<<"_source">>}

\* Every fields argument with one response, and every response with the
\* default fields argument.
CallSearchWithQueryString ==
    /\ Ready
    /\ \E index_name \in IndexArgs,
          window \in {[size |-> 10, from_ |-> 0], [size |-> 1, from_ |-> 1]},
          fault \in {"none", "ctx", "search", "malformed"} :
       \E fields \in IF fault = "none" THEN FieldsArgs ELSE {<<"_source">>} :
       \E resp \in IF fault = "none" /\ fields = <<"_source">>
                    THEN Responses ELSE {NoResponse} :
           Serve("search_with_query_string",
                 [index_name |-> index_name, fields |-> fields,
                  size |-> window.size, from_ |-> window.from_, fault |-> fault,
                  resp |-> resp],
                 SearchWithQueryString(index_name, "q", fields, window.size,
                                       window.from_, fault, resp, cluster))

CallGetIndexStats ==
    /\ Ready
    /\ \E index_name \in IndexArgs, fault \in {"none", "ctx", "stats", "malformed"} :
           Serve("get_index_stats", [index_name |-> index_name, fault |-> fault],
                 GetIndexStats(index_name, fault, cluster))

ReadIndexResource ==
    /\ Ready
    /\ \E index_name \in IndexArgs,
          fault \in {"none", "get_context", "ctx", "uninitialized", "exists",
                     "get", "stats", "malformed"} :
           Serve("get_index_resource", [index_name |-> index_name, fault |-> fault],
                 GetIndexResource(index_name, fault, cluster))

ReadMappingResource ==
    /\ Ready
    /\ \E index_name \in IndexArgs,
          fault \in {"none", "get_context", "ctx", "uninitialized", "exists",
                     "get_mapping", "malformed"} :
           Serve("get_mapping_resource",
                 [index_name |-> index_name, fault |-> fault],
                 GetMappingResource(index_name, fault, cluster))

\* The result of the invocation is handed to the caller.
Respond ==
    /\ pc = "serving"
    /\ last # Idle
    /\ last' = Idle
    /\ UNCHANGED <<env, pc, client, closeCalls, yielded, pinged, raised, cluster>>

----------------------------------------------------------------------------
Init ==
    /\ env \in [{"ES_CLOUD_ID", "ES_API_KEY"} -> EnvValues]
    /\ pc = "start"
    /\ client = "none"
    /\ closeCalls = 0
    /\ yielded = FALSE
    /\ pinged = "unknown"
    /\ raised = NoException
    /\ cluster \in Clusters
    /\ last = Idle

Next ==
    \/ LifespanStart
    \/ LifespanPing
    \/ LifespanExit
    \/ CallListIndices
    \/ CallGetMappings
    \/ CallSearch
    \/ CallSearchWithQueryString
    \/ CallGetIndexStats
    \/ ReadIndexResource
    \/ ReadMappingResource
    \/ ReadIndicesResource
    \/ Respond

Spec == Init /\ [][Next]_vars

----------------------------------------------------------------------------
\* Properties

ToolNames ==
    {"list_indices", "get_mappings", "search", "search_with_query_string",
     "get_index_stats"}
ResourceNames ==
    {"get_index_resource", "get_mapping_resource", "list_indices_resource"}

CredentialsMissing == EnvGet("ES_CLOUD_ID") = "" \/ EnvGet("ES_API_KEY") = ""

\* C1: once the cluster handle has been created it is closed exactly once on
\* every exit path of the lifespan manager (normal shutdown, a fault while
\* serving, a liveness check that returns false or raises): close() is never
\* called twice, has been called once when the lifespan manager has ended,
\* is not called while the handle may still be served, and every tool or
\* resource invocation ran with the handle open.
C1_HandleClosedExactlyOnce ==
    /\ closeCalls <= 1
    /\ client = "none" => closeCalls = 0
    /\ client = "open" => closeCalls = 0 /\ pc \in {"ping", "serving"}
    /\ client = "closed" => closeCalls = 1 /\ pc = "done"
    /\ (pc = "done" /\ ~CredentialsMissing) => client = "closed"
    /\ last.op # "none" => last.handle = "open"

\* C1 witness: the server stopped by a fault after serving an invocation, and
\* the handle was closed.
C1_Witness ==
    /\ pc = "done"
    /\ raised.context = "ServerFault"
    /\ client = "closed"
    /\ closeCalls = 1
    /\ last.op \in ToolNames

\* C2: startup aborts with an error and never yields the context when a
\* credential is absent or empty (before any handle is constructed) or when
\* the liveness check fails; a liveness check that returns false ends in a
\* connectivity error.
C2_StartupAborts ==
    /\ (CredentialsMissing /\ pc # "start") =>
            /\ pc = "done"
            /\ raised.type = "ValueError"
            /\ ~yielded
            /\ client = "none"
    /\ pinged \in {"false", "raises"} =>
            pc = "done" /\ raised.type # "none" /\ ~yielded
    /\ pinged = "false" => raised.type = "ConnectionError"

\* C3: a tool never raises past the dispatch boundary, and when a fault is
\* raised inside the call (reading the handle from the context, a client
\* call, a malformed result, a missing index), it returns a string that
\* begins with "Error".
C3_ToolsReturnError ==
    last.op \in ToolNames =>
        /\ last.result.outcome = "return"
        /\ last.result.kind = "text"
        /\ last.exc # "none" =>
              Len(last.result.head) > 0 /\ last.result.head[1] = "Error"

\* C3 witness: a malformed result made the formatting of a tool raise, and
\* the tool returned an error string.
C3_Witness ==
    /\ last.op = "get_index_stats"
    /\ last.calls = <<"stats">>
    /\ last.exc = "KeyError"
    /\ last.result.head[1] = "Error"

\* C4: a resource never raises to the caller: whatever fault occurs during
\* the invocation (obtaining the invocation context included), it returns a
\* JSON object that has an error key.
C4_ResourcesReturnErrorJson ==
    (last.op \in ResourceNames /\ last.exc # "none") =>
        /\ last.result.outcome = "return"
        /\ last.result.kind = "json"
        /\ "error" \in DOMAIN last.result.body

\* C4 is refuted by the invocation in which mcp.get_context(), called before
\* the try block, raises.

\* The page and page_size a caller asked list_indices or the indices-list
\* resource for, as integers when they are (or convert to) integers.
Asked(param) ==
    LET raw == IF last.op = "list_indices" THEN last.args[param]
               ELSE IF last.args.tool_input.present
                    THEN last.args.tool_input.d[param] ELSE NoneVal
    IN IF raw = NoneVal \/ ~PyInt(raw).ok THEN [int |-> FALSE]
       ELSE [int |-> TRUE, v |-> PyInt(raw).v]

IsDigest(result) ==
    result.outcome = "return" /\ "current_page" \in DOMAIN result.body

\* C5: for page_size > 0 and N indices, list_indices reports
\* total_pages = ceil(N / page_size); for N > 0 the page holds exactly
\* min(page_size, N - (current_page - 1) * page_size) entries, which are the
\* entries of the name-sorted catalog from offset
\* (current_page - 1) * page_size on, and indices_on_page is their number;
\* for N = 0 it returns the "No indices found." message and no page.
C5_PageWindow ==
    (/\ last.op = "list_indices"
     /\ last.exc = "none"
     /\ last.args.page_size # NoneVal
     /\ last.args.page_size.v > 0) =>
        LET N == cluster.n
            page_size == last.args.page_size.v
            d == last.result.body
        IN IF N = 0
           THEN /\ last.result.head = <<"No", "indices", "found.">>
                /\ ~IsDigest(last.result)
           ELSE /\ IsDigest(last.result)
                /\ d.total_indices = N
                /\ d.page_size = page_size
                /\ d.total_pages * page_size >= N
                /\ (d.total_pages - 1) * page_size < N
                /\ Len(d.indices) =
                        Min(page_size, N - (d.current_page - 1) * page_size)
                /\ d.indices_on_page = Len(d.indices)
                /\ \A k \in 1..Len(d.indices) :
                      LET row == CatRow((d.current_page - 1) * page_size + k)
                      IN /\ d.indices[k].index = row.index
                         /\ d.indices[k].health = row.health
                         /\ d.indices[k].status = row.status
                         /\ d.indices[k].docs_count = row.docs_count
                         /\ d.indices[k].size = row.store_size

\* C5 witness: a last page that is not the first and is not full.
C5_Witness ==
    /\ last.op = "list_indices"
    /\ last.exc = "none"
    /\ last.args.page_size = IntVal(2)
    /\ IsDigest(last.result)
    /\ last.result.body.current_page = 3
    /\ last.result.body.total_pages = 3
    /\ last.result.body.indices_on_page = 1

\* C6: in every digest of list_indices and of the indices-list resource,
\* whatever page and page_size were asked for: page_size > 0; current_page
\* is in [1, total_pages] when there are indices and is 1 when there are
\* none; a page beyond total_pages gives total_pages and a page <= 0 gives
\* 1; a non-positive, missing or unparsable page_size gives 10; and the
\* pagination input alone never makes the call fail.
C6_PaginationClamped ==
    (last.op \in {"list_indices", "list_indices_resource"}
        /\ last.args.fault = "none") =>
        /\ last.exc = "none"
        /\ IsDigest(last.result) =>
            LET N == cluster.n
                d == last.result.body
            IN /\ d.page_size > 0
               /\ N > 0 => 1 <= d.current_page /\ d.current_page <= d.total_pages
               /\ N = 0 => d.current_page = 1
               /\ (N > 0 /\ Asked("page").int /\ Asked("page").v > d.total_pages)
                     => d.current_page = d.total_pages
               /\ (Asked("page").int /\ Asked("page").v <= 0)
                     => d.current_page = 1
               /\ (~Asked("page_size").int \/ Asked("page_size").v <= 0)
                     => d.page_size = 10

\* C6 is refuted by the indices-list resource on an empty catalog: its
\* zero-filled digest carries the page asked for as current_page.

\* The top-level fields of a mapping that are of type text or have a
\* dense_vector sub-field.
Qualifying(m) ==
    IF "properties" \notin DOMAIN m THEN {}
    ELSE {f \in DOMAIN m["properties"] :
            \/ /\ "type" \in DOMAIN m["properties"][f]
               /\ m["properties"][f]["type"] = "text"
            \/ "dense_vector" \in DOMAIN m["properties"][f]}

EmHighlight(fields) ==
    [fields |-> [f \in fields |-> EmptyDict],
     pre_tags |-> <<"<em>">>, post_tags |-> <<"</em>">>]

\* C7 as stated: whatever the query_body, the request search sends has a
\* highlight block if and only if the mapping of the index has a qualifying
\* field, and the block then lists exactly the qualifying fields with the
\* tags <em> and </em>.
C7_HighlightIffQualifying ==
    (last.op = "search" /\ last.exc = "none") =>
        LET kwargs == last.request.kwargs
            Q == Qualifying(cluster.mapping)
        IN /\ "highlight" \in DOMAIN kwargs <=> Q # {}
           /\ "highlight" \in DOMAIN kwargs => kwargs.highlight = EmHighlight(Q)

\* C7 as amended: the request has a highlight block if and only if the
\* mapping has a qualifying field or the query_body has a highlight key of
\* its own; with a qualifying field the block lists exactly the qualifying
\* fields with the tags <em> and </em> (replacing the caller's), without one
\* the caller's block is sent as it is.
C7_HighlightSetOrPassedThrough ==
    (last.op = "search" /\ last.request.sent) =>
        LET kwargs == last.request.kwargs
            query_body == last.args.query_body
            Q == Qualifying(cluster.mapping)
        IN /\ "highlight" \in DOMAIN kwargs <=>
                (Q # {} \/ "highlight" \in DOMAIN query_body)
           /\ Q # {} => kwargs.highlight = EmHighlight(Q)
           /\ (Q = {} /\ "highlight" \in DOMAIN query_body) =>
                kwargs.highlight = query_body.highlight

\* C7 witness: a search on an index whose only qualifying field has a
\* dense_vector sub-field, with a query_body that has its own highlight key.
C7_Witness ==
    /\ last.op = "search"
    /\ last.request.sent
    /\ "highlight" \in DOMAIN last.args.query_body
    /\ Qualifying(cluster.mapping) = {"embedding"}
    /\ DOMAIN last.request.kwargs.highlight.fields = {"embedding"}

\* The hits the search tool formatted: those the cluster returned for the
\* request.
FormattedHit(h) ==
    Highlighted(last.args.resp.hits[h],
                IF "highlight" \in DOMAIN last.request.kwargs
                THEN DOMAIN last.request.kwargs.highlight.fields ELSE {})

\* C8: in every hit the search tool formats, each field of the source
\* appears in exactly one line, a highlighted line when the hit has a
\* highlight entry for the field and a raw line otherwise, and the
\* highlighted lines come before the raw lines.
C8_EverySourceFieldOnce ==
    (last.op = "search" /\ last.exc = "none") =>
        \A h \in 1..Len(last.result.body.hits) :
            LET lines == last.result.body.hits[h]
                source == Get(FormattedHit(h), "_source", <<>>)
                highlight == Get(FormattedHit(h), "highlight", <<>>)
            IN /\ \A f \in Keys(source) :
                    /\ Cardinality({i \in 1..Len(lines) : lines[i].field = f}) = 1
                    /\ \A i \in 1..Len(lines) :
                          lines[i].field = f =>
                            (lines[i].highlighted <=> f \in Keys(highlight))
               /\ \A i, j \in 1..Len(lines) :
                    (i < j /\ lines[j].highlighted) => lines[i].highlighted

\* The comma-separated segments of a string: the maximal runs without a
\* comma, empty runs included.
Segments(s) ==
    {SubSeq(s, p[1], p[2]) :
        p \in {q \in (1..(Len(s) + 1)) \X (0..Len(s)) :
                /\ q[1] <= q[2] + 1
                /\ q[1] = 1 \/ s[q[1] - 1] = ","
                /\ q[2] = Len(s) \/ s[q[2] + 1] = ","
                /\ \A k \in q[1]..q[2] : s[k] # ","}}

RECURSIVE JoinComma(_)
JoinComma(list) ==
    IF Len(list) = 1 THEN list[1]
    ELSE list[1] \o <<",">> \o JoinComma(Tail(list))

\* C9 as stated: with fields = "_source" the query search_with_query_string
\* sends has no source projection; with any other fields argument it has
\* one, whose field names are exactly those of the comma-separated list;
\* size and from_ are passed unchanged.
C9_ProjectionUnlessSentinel ==
    (last.op = "search_with_query_string" /\ last.exc = "none") =>
        LET body == last.request.body
            fields == last.args.fields
        IN /\ body.size = last.args.size
           /\ body.from = last.args.from_
           /\ IF fields = <<"_source">> THEN "_source" \notin DOMAIN body
              ELSE /\ "_source" \in DOMAIN body
                   /\ {body._source[i] : i \in 1..Len(body._source)} \ {<<>>}
                        = Segments(fields) \ {<<>>}

\* C9 as amended: with fields = "_source" or the empty string the query has
\* no source projection; with any other fields argument its projection is
\* the list of the comma-separated segments of fields, in order; size and
\* from_ are passed unchanged.
C9_ProjectionUnlessSentinelOrEmpty ==
    (last.op = "search_with_query_string" /\ last.request.sent) =>
        LET body == last.request.body
            fields == last.args.fields
        IN /\ body.size = last.args.size
           /\ body.from = last.args.from_
           /\ last.request.index = last.args.index_name
           /\ IF fields = <<"_source">> \/ fields = <<>>
              THEN "_source" \notin DOMAIN body
              ELSE /\ "_source" \in DOMAIN body
                   /\ {body._source[i] : i \in 1..Len(body._source)}
                        = Segments(fields)
                   /\ JoinComma(body._source) = fields
                   /\ \A i \in 1..Len(body._source) :
                        \A k \in 1..Len(body._source[i]) :
                            body._source[i][k] # ","

\* C9 witness: fields = "t,p" gave the projection [t, p].
C9_Witness ==
    /\ last.op = "search_with_query_string"
    /\ last.request.sent
    /\ last.args.fields = <<"t", ",", "p">>
    /\ last.request.body._source = << <<"t">>, <<"p">> >>

\* The list_indices argument that stands for what the resource was asked.
ToolArg(param) ==
    IF Asked(param).int THEN IntVal(Asked(param).v) ELSE NoneVal

\* C10 as stated: for the same catalog and the same page and page_size, the
\* indices-list resource and list_indices give the same digest, for every
\* catalog size including the empty one.
C10_SameDigest ==
    (last.op = "list_indices_resource" /\ last.exc = "none"
        /\ IsDigest(last.result)) =>
        LET tool == ListIndices(ToolArg("page"), ToolArg("page_size"),
                                "none", cluster).result
        IN /\ IsDigest(tool)
           /\ tool.body = last.result.body

\* C10 as amended: for a catalog that is not empty the two give the same
\* digest; for an empty catalog list_indices returns the "No indices found."
\* message without a digest, and the resource a digest without an error key
\* whose total_indices, total_pages and indices_on_page are 0, whose
\* indices list is empty, whose page_size is the one asked for (10 if it is
\* missing, unparsable or not positive) and whose current_page is the page
\* asked for (1 if it is missing, unparsable or not positive).
C10_SameDigestUnlessEmpty ==
    (last.op = "list_indices_resource" /\ last.exc = "none"
        /\ IsDigest(last.result)) =>
        LET tool == ListIndices(ToolArg("page"), ToolArg("page_size"),
                                "none", cluster).result
            d == last.result.body
        IN IF cluster.n > 0
           THEN IsDigest(tool) /\ tool.body = d
           ELSE /\ tool.head = <<"No", "indices", "found.">>
                /\ ~IsDigest(tool)
                /\ "error" \notin DOMAIN d
                /\ d.total_indices = 0
                /\ d.total_pages = 0
                /\ d.indices_on_page = 0
                /\ d.indices = <<>>
                /\ d.current_page = (IF ToolArg("page") # NoneVal
                                        /\ ToolArg("page").v > 0
                                     THEN ToolArg("page").v ELSE 1)
                /\ d.page_size = (IF ToolArg("page_size") # NoneVal
                                     /\ ToolArg("page_size").v > 0
                                  THEN ToolArg("page_size").v ELSE 10)

\* C10 witness: the resource, asked for page "2" with an unparsable
\* page_size, gave the second page of ten.
C10_Witness ==
    /\ last.op = "list_indices_resource"
    /\ last.args.tool_input.present
    /\ last.args.tool_input.d.page = StrVal(<<"2">>)
    /\ last.args.tool_input.d.page_size = StrVal(<<"x">>)
    /\ IsDigest(last.result)
    /\ last.result.body.current_page = 2
    /\ last.result.body.page_size = 10
    /\ last.result.body.indices_on_page = 1

----------------------------------------------------------------------------
\* The client methods that only read the cluster
ReadCalls == {"cat.indices", "exists", "get", "get_mapping", "stats", "search"}

\* The resource of the invocation in last, invoked again with the same
\* inputs against the cluster as it is now.
Reinvoked ==
    CASE last.op = "get_index_resource" ->
            GetIndexResource(last.args.index_name, last.args.fault, cluster)
      [] last.op = "get_mapping_resource" ->
            GetMappingResource(last.args.index_name, last.args.fault, cluster)
      [] last.op = "list_indices_resource" ->
            ListIndicesResource(last.args.tool_input, last.args.fault, cluster)

\* C11: every tool and resource invocation, successful or not, leaves the
\* shared cluster handle and the cluster contents unchanged: while the server
\* is serving no step changes the handle, calls close() or changes the
\* cluster; an invocation was given the open handle and the handle is still
\* open after it, until the server stops; the cluster calls it issued are all read calls; and a
\* resource invoked again with the same inputs against the cluster as the
\* invocation left it issues the same calls and yields the same result.
C11_InvocationsReadOnly ==
    /\ [][(pc = "serving" /\ pc' = "serving")
            => /\ client' = client
               /\ closeCalls' = closeCalls
               /\ cluster' = cluster]_vars
    /\ [](last.op # "none"
            => /\ last.handle = "open"
               /\ pc = "serving" => client = "open" /\ closeCalls = 0
               /\ \A i \in 1..Len(last.calls) : last.calls[i] \in ReadCalls
               /\ last.op \in ResourceNames
                    => /\ Reinvoked.calls = last.calls
                       /\ Reinvoked.result = last.result)

\* C11 witness: a resource that issued cluster calls and returned an error,
\* with the handle still open and never closed.
C11_Witness ==
    /\ last.op \in ResourceNames
    /\ last.exc # "none"
    /\ Len(last.calls) > 1
    /\ last.result.outcome = "return"
    /\ pc = "serving"
    /\ client = "open"
    /\ closeCalls = 0
    /\ cluster.n > 0

----------------------------------------------------------------------------
\* C12: for every query_body the caller supplies to the search tool, the
\* search executed against the cluster targets exactly the index given in
\* the index argument, the index whose mappings were fetched to build the
\* highlight set: no key of query_body redirects the search to another index.
C12_SearchTargetsIndexArgument ==
    (last.op = "search" /\ last.request.sent)
        => /\ last.calls = <<"get_mapping", "search">>
           /\ last.request.kwargs.index = last.args.index

----------------------------------------------------------------------------
\* The sum of the counts of a histogram
RECURSIVE SumOver(_, _)
SumOver(hist, keys) ==
    IF keys = {} THEN 0
    ELSE LET k == CHOOSE x \in keys : TRUE
         IN hist[k] + SumOver(hist, keys \ {k})

\* The invocation in last reached the cluster and its existence check
\* returned an answer.
ExistsAnswered ==
    /\ last.op \in {"get_index_resource", "get_mapping_resource"}
    /\ last.calls # <<>>
    /\ ~(last.calls = <<"exists">> /\ last.exc # "none")

\* C13: in the index-info and mapping-info resources the existence check is
\* the first cluster call of every invocation (an invocation whose context
\* is unusable makes no cluster call at all). When it reports the index
\* absent the resource returns the not-found message and has issued no other
\* cluster call. When it reports the index present the resource goes on to
\* get and stats (index info) or to get_mapping (mapping info), in that
\* order, and, no call failing, returns the JSON digest: name, settings and
\* the stats summary of the index; or the mappings, field_count (the number
\* of top-level fields) and a field_types histogram whose counts sum to
\* field_count.
C13_ExistenceCheckFirst ==
    last.op \in {"get_index_resource", "get_mapping_resource"}
    => /\ last.calls # <<>> => last.calls[1] = "exists"
       /\ last.args.fault \notin {"get_context", "ctx", "uninitialized"}
            => last.calls # <<>>
       /\ (ExistsAnswered /\ ~Exists(cluster, last.args.index_name))
            => /\ last.calls = <<"exists">>
               /\ last.result = NotFound(last.args.index_name)
       /\ (ExistsAnswered /\ Exists(cluster, last.args.index_name))
            => /\ \E k \in 2..3 :
                    last.calls =
                      SubSeq(IF last.op = "get_index_resource"
                             THEN <<"exists", "get", "stats">>
                             ELSE <<"exists", "get_mapping", "none">>, 1, k)
               /\ Len(last.calls) = 3 => last.op = "get_index_resource"
               /\ last.exc # "none"
                    => /\ last.result.kind = "json"
                       /\ DOMAIN last.result.body = {"error"}
               /\ (last.exc = "none" /\ last.op = "get_index_resource")
                    => /\ last.calls = <<"exists", "get", "stats">>
                       /\ last.result.outcome = "return"
                       /\ last.result.kind = "json"
                       /\ DOMAIN last.result.body = {"name", "settings", "stats"}
                       /\ last.result.body.name = last.args.index_name
                       /\ last.result.body.settings
                            = GetIndex(cluster, last.args.index_name)
                                .response[last.args.index_name].settings
                       /\ DOMAIN last.result.body.stats
                            = {"docs_count", "size_bytes", "size_mb"}
                       /\ last.result.body.stats.docs_count
                            = IndexStats(cluster, last.args.index_name)
                                .response._all.primaries.docs.count
                       /\ last.result.body.stats.size_bytes
                            = IndexStats(cluster, last.args.index_name)
                                .response._all.primaries.store.size_in_bytes
                       /\ last.result.body.stats.size_mb * 1048576
                            \in (last.result.body.stats.size_bytes * 100 - 524288)
                                ..(last.result.body.stats.size_bytes * 100 + 524288)
               /\ (last.exc = "none" /\ last.op = "get_mapping_resource")
                    => /\ last.calls = <<"exists", "get_mapping">>
                       /\ last.result.outcome = "return"
                       /\ last.result.kind = "json"
                       /\ DOMAIN last.result.body
                            = {"index", "mappings", "field_count", "field_types"}
                       /\ last.result.body.index = last.args.index_name
                       /\ last.result.body.mappings = cluster.mapping
                       /\ last.result.body.field_count
                            = IF "properties" \in DOMAIN cluster.mapping
                              THEN Cardinality(DOMAIN cluster.mapping["properties"])
                              ELSE 0
                       /\ SumOver(last.result.body.field_types,
                                  DOMAIN last.result.body.field_types)
                            = last.result.body.field_count

\* C13 witness: the mapping resource found its index present, went on to
\* get_mapping and returned three fields in a histogram in which one type
\* counts two of them.
C13_Witness ==
    /\ last.op = "get_mapping_resource"
    /\ last.calls = <<"exists", "get_mapping">>
    /\ last.exc = "none"
    /\ Exists(cluster, last.args.index_name)
    /\ last.result.body.field_count = 3
    /\ \E t \in DOMAIN last.result.body.field_types :
            last.result.body.field_types[t] = 2

====
